---- MODULE Spec2Model ----
(***************************************************************************)
(* d3-gantt: the configuration merge, the time-domain inference and the    *)
(* layout computation of d3.ganttChart (src/unnamed/part_001), and the     *)
(* init of the older d3.ganttDiagram (src/dist/d3-gantt.js, src/src/util.js)*)
(*                                                                         *)
(* Time is counted in minutes.  Numbers that the code obtains by division  *)
(* (band height, pixel offsets) are exact rationals [n, d].  An optional   *)
(* key of a JavaScript object is a sequence: <<>> when the key is absent   *)
(* (or undefined), <<v>> when it holds v.  The scales and intervals are    *)
(* those of D3 version 4, the merge is jQuery's deep extend.               *)
(***************************************************************************)
EXTENDS Integers, Sequences, FiniteSets, TLC

\* ------------------------------------------------------------------ bounds
MaxTime == 3

MaxData == 2

MaxActs == 2

MaxCalls == 3

MaxScroll == 2

\* ----------------------------------------------------------- small helpers
None == <<>>

Some(v) == <<v>>

Pick(src, copy) == IF copy = None THEN src ELSE copy[1]

Max(a, b) == IF a >= b THEN a ELSE b

Min(a, b) == IF a <= b THEN a ELSE b

Abs(a) == IF a < 0 THEN -a ELSE a

RECURSIVE GCD(_, _)
GCD(a, b) == IF b = 0 THEN a ELSE GCD(b, a % b)

\* exact quotient n / d of two integers, d > 0, in lowest terms
Q(n, d) ==
  LET g == GCD(Abs(n), d)
  IN  IF g = 0 THEN [n |-> 0, d |-> 1] ELSE [n |-> n \div g, d |-> d \div g]

QInt(i) == [n |-> i, d |-> 1]

QMulInt(q, i) == Q(q.n * i, q.d)

QDivInt(q, i) == Q(q.n, q.d * i)

QSub(a, b) == Q(a.n * b.d - b.n * a.d, a.d * b.d)

QAdd(a, b) == Q(a.n * b.d + b.n * a.d, a.d * b.d)

QLeq(a, b) == a.n * b.d <= b.n * a.d

Range(s) == {s[i] : i \in DOMAIN s}

\* ------------------------------------------------------------------ domain
Charts == {"A", "B"}

Times == 0 .. MaxTime

Names == {"John", "Bob"}

\* the instant at which the script is loaded (new Date() in the defaults)
Now == 0

\* d3.ganttChart.defaultParameters as the script defines it
DefaultParameters ==
  [node       |-> "#gantt",
   width      |-> 200,
   height     |-> QInt(200),
   activities |-> <<>>,
   data       |-> <<>>,
   endTime    |-> Now,
   startTime  |-> Now,
   yAxis      |-> [width |-> 15, dynamicHeight |-> TRUE, elementHeight |-> QInt(50)],
   xAxis      |-> [height |-> 35, dynamicWidth |-> TRUE, tickDistance |-> 50,
                   interval |-> 15,
                   label |-> [format |-> "%H:%M", rotation |-> -90,
                              dx |-> "-1em", dy |-> "-1em"]]]

\* the object a caller passes to init, with every key absent
NoLabel == [format |-> None, rotation |-> None, dx |-> None, dy |-> None]

NoYAxis == [width |-> None, dynamicHeight |-> None, elementHeight |-> None]

NoXAxis == [height |-> None, dynamicWidth |-> None, tickDistance |-> None,
            interval |-> None, label |-> None]

NoParams ==
  [node |-> None, width |-> None, height |-> None, activities |-> None,
   data |-> None, endTime |-> None, startTime |-> None,
   yAxis |-> None, xAxis |-> None]

\* ------------------------------------------------- jQuery.extend(true, ..)
\* a plain object of an array: merged key by key into the element that is
\* already at that index of the target (or into {} when there is none)
ExtendEvent(srcOpt, copy) ==
  [activity  |-> copy.activity,
   start     |-> copy.start,
   end       |-> copy.end,
   fillColor |-> IF copy.fillColor # None THEN copy.fillColor
                 ELSE IF srcOpt # None THEN srcOpt[1].fillColor ELSE None]

ExtendActivity(srcOpt, copy) ==
  [name        |-> copy.name,
   description |-> IF copy.description # None THEN copy.description
                   ELSE IF srcOpt # None THEN srcOpt[1].description ELSE None]

\* an array is copied index by index INTO the target's array: the target's
\* elements beyond the length of the copy stay where they are
ExtendData(src, copy) ==
  [i \in 1 .. Max(Len(src), Len(copy)) |->
     IF i <= Len(copy)
     THEN ExtendEvent(IF i <= Len(src) THEN Some(src[i]) ELSE None, copy[i])
     ELSE src[i]]

ExtendActivities(src, copy) ==
  [i \in 1 .. Max(Len(src), Len(copy)) |->
     IF i <= Len(copy)
     THEN ExtendActivity(IF i <= Len(src) THEN Some(src[i]) ELSE None, copy[i])
     ELSE src[i]]

ExtendLabel(src, copy) ==
  [format   |-> Pick(src.format, copy.format),
   rotation |-> Pick(src.rotation, copy.rotation),
   dx       |-> Pick(src.dx, copy.dx),
   dy       |-> Pick(src.dy, copy.dy)]

ExtendYAxis(src, copy) ==
  [width         |-> Pick(src.width, copy.width),
   dynamicHeight |-> Pick(src.dynamicHeight, copy.dynamicHeight),
   elementHeight |-> Pick(src.elementHeight, copy.elementHeight)]

ExtendXAxis(src, copy) ==
  [height       |-> Pick(src.height, copy.height),
   dynamicWidth |-> Pick(src.dynamicWidth, copy.dynamicWidth),
   tickDistance |-> Pick(src.tickDistance, copy.tickDistance),
   interval     |-> Pick(src.interval, copy.interval),
   label        |-> IF copy.label = None THEN src.label
                    ELSE ExtendLabel(src.label, copy.label[1])]

\* $.extend(true, target, options): the value of target after the call
\* (the call returns target itself)
Extend(target, options) ==
  [node       |-> Pick(target.node, options.node),
   width      |-> Pick(target.width, options.width),
   height     |-> Pick(target.height, options.height),
   activities |-> IF options.activities = None THEN target.activities
                  ELSE ExtendActivities(target.activities, options.activities[1]),
   data       |-> IF options.data = None THEN target.data
                  ELSE ExtendData(target.data, options.data[1]),
   endTime    |-> Pick(target.endTime, options.endTime),
   startTime  |-> Pick(target.startTime, options.startTime),
   yAxis      |-> IF options.yAxis = None THEN target.yAxis
                  ELSE ExtendYAxis(target.yAxis, options.yAxis[1]),
   xAxis      |-> IF options.xAxis = None THEN target.xAxis
                  ELSE ExtendXAxis(target.xAxis, options.xAxis[1])]

\* ------------------------------------------------- Array.prototype.sort
Perms(n) == {f \in [1 .. n -> 1 .. n] : \A i, j \in 1 .. n : f[i] = f[j] => i = j}

\* every order sort(function(a, b) { return a.end - b.end }) can leave the
\* array in: ascending by end, elements with equal ends in any order
SortedByEnd(arr) ==
  {[i \in 1 .. Len(arr) |-> arr[f[i]]] : f \in
     {g \in Perms(Len(arr)) :
        \A i \in 1 .. Len(arr) - 1 : arr[g[i]].end <= arr[g[i + 1]].end}}

\* the same for sort(function(a, b) { return a.start - b.start })
SortedByStart(arr) ==
  {[i \in 1 .. Len(arr) |-> arr[f[i]]] : f \in
     {g \in Perms(Len(arr)) :
        \A i \in 1 .. Len(arr) - 1 : arr[g[i]].start <= arr[g[i + 1]].start}}

\* ------------------------------------------------------------- the state
VARIABLES
  defaultParameters,  \* the object d3.ganttChart.defaultParameters, which
                      \* every chart made by Object.create inherits
  params,             \* params[c]: what this.params of chart c refers to
  svg,                \* svg[c]: what the latest draw() of chart c rendered
  caller,             \* the object passed to the latest init, as it is now
  last,               \* the latest call: operation, receiver and argument
  dgParams,           \* this.params of d3.ganttDiagram
  calls,              \* number of calls made so far
  dom,                \* the elements draw() appended to the node '#gantt',
                      \* in document order, with their scroll offsets
  raised              \* the exception the latest call or event handler
                      \* ended with, if it ended with one

vars == <<defaultParameters, params, svg, caller, last, dgParams, calls, dom,
          raised>>

\* the tree this.params of chart c refers to
ParamsOf(c) == defaultParameters

\* ------------------------------------------------------------ the scales
\* this.params.xAxis.interval.range(startTime, endTime): the interval
\* boundaries in the half-open range [startTime, endTime)
IntervalRange(k, start, stop) == {t \in start .. (stop - 1) : t % k = 0}

\* scale.ticks(interval) of the axis: interval.range(t0, t1 + 1), the
\* boundaries in the closed range
ScaleTicks(p) ==
  LET t0 == Min(p.startTime, p.endTime)
      t1 == Max(p.startTime, p.endTime)
  IN  {t \in t0 .. t1 : t % p.xAxis.interval = 0}

\* xAxisScale without clamp(true): the line through (startTime, 0) and
\* (endTime, width), also outside the domain
xAxisScale_unclamped(p, t) ==
  IF p.endTime = p.startTime THEN QInt(0)
  ELSE IF p.endTime < p.startTime
       THEN Q(p.width * (p.startTime - t), p.startTime - p.endTime)
       ELSE Q(p.width * (t - p.startTime), p.endTime - p.startTime)

\* d3.scaleTime().domain([startTime, endTime]).range([0, width]).clamp(true)
xAxisScale(p, t) ==
  LET r == p.endTime < p.startTime
      a == IF r THEN p.endTime ELSE p.startTime
      b == IF r THEN p.startTime ELSE p.endTime
      u == IF t <= a THEN Q(0, 1) ELSE IF t >= b THEN Q(1, 1) ELSE Q(t - a, b - a)
  IN  IF r THEN QSub(QInt(p.width), QMulInt(u, p.width)) ELSE QMulInt(u, p.width)

\* the domain of the band scale: the names, each once, in list order
FirstIndex(acts, nm) == CHOOSE i \in 1 .. Len(acts) :
  acts[i].name = nm /\ \A j \in 1 .. i - 1 : acts[j].name # nm

DomainIndex(acts, nm) ==
  Cardinality({acts[j].name : j \in 1 .. FirstIndex(acts, nm) - 1})

DomainSize(acts) == Cardinality({acts[i].name : i \in 1 .. Len(acts)})

\* bandwidth with room for one row more than there are
bandwidth_spare(p) ==
  LET reverse == p.height.n < 0
      span    == IF reverse THEN QSub(QInt(0), p.height) ELSE p.height
  IN  QDivInt(span, Max(1, DomainSize(p.activities)) + 1)

\* the domain itself: what the y axis shows as its ticks
DomainNames(acts) ==
  LET firsts == {i \in 1 .. Len(acts) : FirstIndex(acts, acts[i].name) = i}
      nth(k) == CHOOSE i \in firsts : Cardinality({j \in firsts : j < i}) = k - 1
  IN  [k \in 1 .. Cardinality(firsts) |-> acts[nth(k)].name]

\* d3.scaleBand().domain(names).range([0, height]): step and bandwidth
\* (no padding), (stop - start) / max(1, n)
bandwidth(p) ==
  LET reverse == p.height.n < 0
      span    == IF reverse THEN QSub(QInt(0), p.height) ELSE p.height
  IN  QDivInt(span, Max(1, DomainSize(p.activities)))

\* yAxisScale with the rows counted from 1
yAxisScale_oneBased(p, nm) ==
  IF nm \notin {p.activities[i].name : i \in 1 .. Len(p.activities)} THEN None
  ELSE Some(QMulInt(bandwidth(p), DomainIndex(p.activities, nm) + 1))

\* the band scale applied to a name: the start of its band, or undefined
yAxisScale(p, nm) ==
  IF nm \notin {p.activities[i].name : i \in 1 .. Len(p.activities)} THEN None
  ELSE LET reverse == p.height.n < 0
           n       == DomainSize(p.activities)
           i       == DomainIndex(p.activities, nm)
           start   == IF reverse THEN p.height ELSE QInt(0)
       IN  Some(QSub(start, QMulInt(bandwidth(p), IF reverse THEN i + 1 - n ELSE -i)))

\* elementWidth with the two ends of the event exchanged
elementWidth_swapped(p, e) == QSub(xAxisScale(p, e.start), xAxisScale(p, e.end))

elementWidth(p, e) == QSub(xAxisScale(p, e.end), xAxisScale(p, e.start))

\* 'translate(x, y)' of an element; y is undefined for an unknown activity
elementTranslate(p, e) ==
  [x |-> xAxisScale(p, e.start), y |-> yAxisScale(p, e.activity)]

\* elementLabelTranslate without the halving
elementLabelTranslate_corner(p, e) ==
  [x |-> elementWidth(p, e), y |-> bandwidth(p)]

\* 'translate(x, y)' of the label within its element
elementLabelTranslate(p, e) ==
  [x |-> QDivInt(elementWidth(p, e), 2), y |-> QDivInt(bandwidth(p), 2)]

\* ------------------------------------------------------------- the calls
Init ==
  /\ defaultParameters = DefaultParameters
  /\ params = [c \in Charts |-> "undefined"]
  /\ svg = [c \in Charts |-> None]
  /\ caller = NoParams
  /\ last = [op |-> "none", chart |-> "none", arg |-> NoParams]
  /\ dgParams = None
  /\ calls = 0
  /\ dom = [xAxis |-> <<>>, yAxis |-> <<>>, container |-> <<>>,
            ticks |-> <<>>, tooltip |-> <<>>, hover |-> 0]
  /\ raised = None

\* d3.ganttChart.init called on chart c with the object p
init(c, p) ==
  /\ calls < MaxCalls
  /\ LET merged == Extend(defaultParameters, p)
     IN  IF Len(merged.data) > 0
         THEN \E byEnd \in SortedByEnd(merged.data) :
              \E byStart \in SortedByStart(byEnd) :
                defaultParameters' =
                  [merged EXCEPT !.data = byStart,
                                 !.endTime = byEnd[Len(byEnd)].end,
                                 !.startTime = byStart[1].start]
         ELSE defaultParameters' = merged
  /\ params' = [params EXCEPT ![c] = "defaultParameters"]
  /\ caller' = p
  /\ last' = [op |-> "init", chart |-> c, arg |-> p]
  /\ calls' = calls + 1
  /\ raised' = None
  /\ UNCHANGED <<svg, dgParams, dom>>

\* DrawHeight without the multiplication by the number of rows
DrawHeight_oneRow(p) ==
  IF p.yAxis.dynamicHeight THEN p.yAxis.elementHeight ELSE p.height

\* DrawWidth with the end of the range counted, as range(start, end + 1) would
DrawWidth_closed(p) ==
  IF p.xAxis.dynamicWidth
  THEN p.xAxis.tickDistance
         * Cardinality({t \in p.startTime .. p.endTime : t % p.xAxis.interval = 0})
  ELSE p.width

\* the height and the width draw() stores before it renders
DrawHeight(p) ==
  IF p.yAxis.dynamicHeight
  THEN QMulInt(p.yAxis.elementHeight, Len(p.activities))
  ELSE p.height

DrawWidth(p) ==
  IF p.xAxis.dynamicWidth
  THEN p.xAxis.tickDistance
         * Cardinality(IntervalRange(p.xAxis.interval, p.startTime, p.endTime))
  ELSE p.width

\* d3.ganttChart.draw called on chart c (before init, this.params is
\* undefined and the first line of draw throws: nothing is drawn)
draw(c) ==
  /\ calls < MaxCalls
  /\ params[c] = "defaultParameters"
  /\ LET p0 == ParamsOf(c)
         p1 == [p0 EXCEPT !.height = DrawHeight(p0), !.width = DrawWidth(p0)]
         \* drawYAxis stores the band height as the element height
         p2 == [p1 EXCEPT !.yAxis.elementHeight = bandwidth(p1)]
     IN  /\ defaultParameters' = p2
         /\ svg' = [svg EXCEPT ![c] = Some(
              [width      |-> p2.width,
               height     |-> p2.height,
               ticks      |-> {[t |-> t, x |-> xAxisScale(p1, t)] : t \in ScaleTicks(p1)},
               rectHeight |-> p2.yAxis.elementHeight,
               bars       |-> [i \in 1 .. Len(p2.data) |->
                  [x      |-> elementTranslate(p2, p2.data[i]).x,
                   y      |-> elementTranslate(p2, p2.data[i]).y,
                   width  |-> elementWidth(p2, p2.data[i]),
                   labelX |-> elementLabelTranslate(p2, p2.data[i]).x,
                   labelY |-> elementLabelTranslate(p2, p2.data[i]).y,
                   fill   |-> p2.data[i].fillColor]]])]
  \* drawXAxis, drawYAxis and draw append their div to the node
  \* the y axis gets one tick per name of the band scale's domain;
  \* initTooltips appends a hidden tooltip, and d3.selectAll('.y .tick').on
  \* replaces the listeners of every tick in the document by its own
  /\ dom' = [dom EXCEPT
       !.xAxis     = Append(dom.xAxis, 0),
       !.yAxis     = Append(dom.yAxis, 0),
       !.container = Append(dom.container, [scrollLeft |-> 0, scrollTop |-> 0]),
       !.ticks     = dom.ticks \o DomainNames(ParamsOf(c).activities),
       !.tooltip   = Append(dom.tooltip, [visible |-> FALSE, text |-> ""])]
  /\ last' = [op |-> "draw", chart |-> c, arg |-> NoParams]
  /\ calls' = calls + 1
  /\ raised' = None
  /\ UNCHANGED <<params, caller, dgParams>>

\* a scroll event on the i-th '.gantt-chart-x-axis' element, scrolled to v:
\* every handler bound to it sets the scrollLeft of all the containers in
\* the node to xAxisElement.scrollLeft(), that of the first element of the
\* set the handler captured
scrollX(i, v) ==
  /\ i \in 1 .. Len(dom.xAxis)
  /\ v # dom.xAxis[i]
  /\ LET xAxisElement == [dom.xAxis EXCEPT ![i] = v]
     IN  dom' = [dom EXCEPT
                  !.xAxis = xAxisElement,
                  !.container = [k \in 1 .. Len(dom.container) |->
                     [dom.container[k] EXCEPT !.scrollLeft = xAxisElement[1]]]]
  /\ last' = [op |-> "scrollX", chart |-> "#gantt", arg |-> NoParams]
  /\ raised' = None
  /\ UNCHANGED <<defaultParameters, params, svg, caller, dgParams, calls>>

\* a scroll event on the i-th '.gantt-chart-y-axis' element, scrolled to v:
\* the handler finds the containers, then reads xAxisElement, which is a
\* local variable of drawXAxis and not in its scope: a ReferenceError
scrollY(i, v) ==
  /\ i \in 1 .. Len(dom.yAxis)
  /\ v # dom.yAxis[i]
  /\ dom' = [dom EXCEPT !.yAxis[i] = v]
  /\ last' = [op |-> "scrollY", chart |-> "#gantt", arg |-> NoParams]
  /\ raised' = Some("ReferenceError")
  /\ UNCHANGED <<defaultParameters, params, svg, caller, dgParams, calls>>

\* the tooltip the listeners of the ticks refer to: that of the latest
\* initTooltips, which bound its listeners to every '.y .tick' there was
tooltipOf(d) == Len(d.tooltip)

\* the pointer enters the i-th y-axis tick: the 'mouseover' listener
mouseover(i) ==
  /\ i \in 1 .. Len(dom.ticks)
  /\ dom.hover = 0
  /\ dom' = [dom EXCEPT !.hover = i, !.tooltip[tooltipOf(dom)].visible = TRUE]
  /\ last' = [op |-> "mouseover", chart |-> "#gantt", arg |-> NoParams]
  /\ raised' = None
  /\ UNCHANGED <<defaultParameters, params, svg, caller, dgParams, calls>>

\* the pointer moves over the i-th tick: the 'mousemove' listener looks its
\* datum up in activities, the array of this.params, and reads the
\* description of what find returns; find returns undefined when no
\* activity has that name, and the read is a TypeError.  text(undefined)
\* empties the tooltip
mousemove(i) ==
  /\ i \in 1 .. Len(dom.ticks)
  /\ dom.hover = i
  /\ LET activities == defaultParameters.activities
         found == {j \in 1 .. Len(activities) : activities[j].name = dom.ticks[i]}
     IN  IF found = {}
         THEN /\ raised' = Some("TypeError")
              /\ dom' = dom
         ELSE LET description == activities[FirstIndex(activities, dom.ticks[i])].description
              IN  /\ raised' = None
                  /\ dom' = [dom EXCEPT !.tooltip[tooltipOf(dom)].text =
                               IF description = None THEN "" ELSE description[1]]
  /\ last' = [op |-> "mousemove", chart |-> "#gantt", arg |-> NoParams]
  /\ UNCHANGED <<defaultParameters, params, svg, caller, dgParams, calls>>

\* the pointer leaves the i-th tick: the 'mouseout' listener
mouseout(i) ==
  /\ i \in 1 .. Len(dom.ticks)
  /\ dom.hover = i
  /\ dom' = [dom EXCEPT !.hover = 0, !.tooltip[tooltipOf(dom)].visible = FALSE]
  /\ last' = [op |-> "mouseout", chart |-> "#gantt", arg |-> NoParams]
  /\ raised' = None
  /\ UNCHANGED <<defaultParameters, params, svg, caller, dgParams, calls>>

\* ------------------------------------------------------ d3.ganttDiagram
\* d3.ganttDiagram.defaultParameters; a nested object keeps its keys as
\* optional ones, because the merge can replace it by a smaller object
DiagramDefaults ==
  [node       |-> "#gantt",
   width      |-> 200,
   height     |-> 200,
   activities |-> <<>>,
   data       |-> <<>>,
   dataRef    |-> "defaultParameters.data",
   endTime    |-> Now,
   startTime  |-> Now,
   yAxis      |-> [width |-> Some(15)],
   xAxis      |-> [height |-> Some(30), labelFormat |-> Some("%H:%M")]]

NoDiagramParams ==
  [data |-> None, endTime |-> None, startTime |-> None, yAxis |-> None,
   xAxis |-> None]

\* d3.ganttDiagram.util.extend(obj1, obj2): a new object with the keys of
\* obj1, then those of obj2 assigned over them
extend(obj1, obj2) ==
  [node       |-> obj1.node,
   width      |-> obj1.width,
   height     |-> obj1.height,
   activities |-> obj1.activities,
   data       |-> Pick(obj1.data, obj2.data),
   dataRef    |-> IF obj2.data = None THEN obj1.dataRef ELSE "params.data",
   endTime    |-> Pick(obj1.endTime, obj2.endTime),
   startTime  |-> Pick(obj1.startTime, obj2.startTime),
   yAxis      |-> Pick(obj1.yAxis, obj2.yAxis),
   xAxis      |-> Pick(obj1.xAxis, obj2.xAxis)]

\* d3.ganttDiagram.init called with the object p; this.params.data is the
\* caller's own array, which the two sorts reorder in place
ganttDiagram_init(p) ==
  /\ calls < MaxCalls
  /\ LET merged == extend(DiagramDefaults, p)
     IN  IF Len(merged.data) > 0
         THEN \E byEnd \in SortedByEnd(merged.data) :
              \E byStart \in SortedByStart(byEnd) :
                /\ dgParams' = Some(
                     [merged EXCEPT !.data = byStart,
                                    !.endTime = byEnd[Len(byEnd)].end,
                                    !.startTime = byStart[1].start])
                /\ caller' = [p EXCEPT !.data = Some(byStart)]
         ELSE /\ dgParams' = Some(merged)
              /\ caller' = p
  /\ last' = [op |-> "init", chart |-> "d3.ganttDiagram", arg |-> p]
  /\ calls' = calls + 1
  /\ raised' = None
  /\ UNCHANGED <<defaultParameters, params, svg, dom>>

\* ------------------------------------------------------------ the inputs
Events ==
  {[activity |-> a, start |-> s, end |-> e, fillColor |-> f] :
     a \in Names, s \in Times, e \in Times, f \in {None, Some("red")}}

Activities ==
  {[name |-> "John", description |-> Some("John's schedule")],
   [name |-> "Bob", description |-> None]}

Lists(S, n) == UNION {[1 .. k -> S] : k \in 0 .. n}

\* the rows of the README's chart, in its order
Roster ==
  <<[name |-> "John", description |-> Some("John's schedule")],
    [name |-> "Bob", description |-> None],
    [name |-> "Jane", description |-> Some("Jane's schedule")],
    [name |-> "Ann", description |-> None]>>

Prefixes(n) == {SubSeq(Roster, 1, k) : k \in 0 .. Min(n, Len(Roster))}

\* charts that differ in their rows and in how the height is found
HeightParams ==
  {[NoParams EXCEPT !.activities = Some(a), !.height = y[1], !.yAxis = y[2]] :
     a \in Prefixes(MaxActs),
     y \in {<<None, None>>,
            <<None, Some([NoYAxis EXCEPT !.elementHeight = Some(QInt(20))])>>,
            <<None, Some([NoYAxis EXCEPT !.dynamicHeight = Some(FALSE)])>>,
            <<Some(QInt(90)), Some([NoYAxis EXCEPT !.dynamicHeight = Some(FALSE)])>>}}

\* charts that differ in their time domain and in how the width is found
WidthParams ==
  {[NoParams EXCEPT !.startTime = Some(s), !.endTime = Some(e),
                    !.width = x[1], !.xAxis = x[2]] :
     s \in Times, e \in Times,
     x \in {<<None, Some([NoXAxis EXCEPT !.interval = Some(1)])>>,
            <<None, Some([NoXAxis EXCEPT !.interval = Some(2),
                                         !.tickDistance = Some(30)])>>,
            <<Some(120), Some([NoXAxis EXCEPT !.interval = Some(2),
                                              !.dynamicWidth = Some(FALSE)])>>}}

LayoutParams == {p \in HeightParams \cup WidthParams :
                   p.startTime # None => p.startTime[1] <= p.endTime[1]}

NextLayout ==
  \/ \E p \in LayoutParams : init("A", p)
  \/ draw("A")

SpecLayout == Init /\ [][NextLayout]_vars

\* events that differ in when they start and end
TimedEvents ==
  {e \in Events : e.activity = "John" /\ e.fillColor = None /\ e.start <= e.end}

\* charts whose time domain is to be inferred from their events, and charts
\* that name their time domain themselves
DomainParams ==
  {[NoParams EXCEPT !.data = Some(d)] : d \in Lists(TimedEvents, MaxData)}
  \cup
  {[NoParams EXCEPT !.data = Some(d), !.startTime = Some(1), !.endTime = Some(2)] :
     d \in Lists(TimedEvents, 1)}

NextDomain ==
  \/ \E p \in DomainParams : init("A", p)
  \/ draw("A")

SpecDomain == Init /\ [][NextDomain]_vars

\* events that differ in their row and colour
ColouredEvents ==
  {[activity |-> "John", start |-> 0, end |-> 1, fillColor |-> Some("red")],
   [activity |-> "Bob", start |-> 1, end |-> 2, fillColor |-> None]}

\* charts that differ in their arrays, and charts that differ in their options
ArrayParams ==
  {[NoParams EXCEPT !.activities = Some(l)] : l \in Lists(Activities, MaxActs)}
  \cup
  {[NoParams EXCEPT !.data = Some(l)] : l \in Lists(ColouredEvents, MaxData)}

OptionParams ==
  {[NoParams EXCEPT !.width = w, !.yAxis = y, !.xAxis = x] :
     w \in {None, Some(300)},
     y \in {None,
            Some([NoYAxis EXCEPT !.width = Some(50)]),
            Some([NoYAxis EXCEPT !.dynamicHeight = Some(FALSE)])},
     x \in {None,
            Some([NoXAxis EXCEPT !.height = Some(40)]),
            Some([NoXAxis EXCEPT !.label = Some([NoLabel EXCEPT !.format = Some("%H")])])}}

MergeParams == ArrayParams \cup OptionParams

DiagramParams ==
  {[NoDiagramParams EXCEPT !.data = d, !.xAxis = x] :
     d \in {None} \cup {Some(l) : l \in Lists(ColouredEvents, MaxData)},
     x \in {None, Some([height |-> Some(40), labelFormat |-> None])}}

NextMerge ==
  \/ \E c \in Charts : \E p \in MergeParams : init(c, p)
  \/ \E c \in Charts : draw(c)
  \/ \E p \in DiagramParams : ganttDiagram_init(p)

SpecMerge == Init /\ [][NextMerge]_vars

\* events of four people, in the order of their start; which of the people
\* have a row depends on the chart
BarEvents ==
  <<[activity |-> "John", start |-> 0, end |-> 2, fillColor |-> Some("red")],
    [activity |-> "Bob", start |-> 1, end |-> 3, fillColor |-> None],
    [activity |-> "Jane", start |-> 2, end |-> 2, fillColor |-> None],
    [activity |-> "Ann", start |-> 2, end |-> 3, fillColor |-> None]>>

EventPrefixes(n) == {SubSeq(BarEvents, 1, k) : k \in 0 .. Min(n, Len(BarEvents))}

\* charts that differ in their rows, their events and their sizing modes
BarParams ==
  {[NoParams EXCEPT !.activities = Some(a), !.data = Some(d),
                    !.height = m[1], !.yAxis = m[2],
                    !.width = m[3], !.xAxis = m[4]] :
     a \in Prefixes(MaxActs),
     d \in EventPrefixes(MaxData),
     m \in {<<None, Some([NoYAxis EXCEPT !.elementHeight = Some(QInt(20))]),
             None, Some([NoXAxis EXCEPT !.interval = Some(1),
                                        !.tickDistance = Some(30)])>>,
            <<Some(QInt(90)), Some([NoYAxis EXCEPT !.dynamicHeight = Some(FALSE)]),
              Some(120), Some([NoXAxis EXCEPT !.interval = Some(2),
                                              !.dynamicWidth = Some(FALSE)])>>}}

NextBars ==
  \/ \E p \in BarParams : init("A", p)
  \/ draw("A")

SpecBars == Init /\ [][NextBars]_vars

\* charts with a negative width, height, element height or tick distance,
\* and a well-formed one
MalformedParams ==
  {[NoParams EXCEPT !.activities = Some(a), !.data = Some(d),
                    !.height = m[1], !.yAxis = m[2],
                    !.width = m[3], !.xAxis = m[4]] :
     a \in Prefixes(MaxActs),
     d \in EventPrefixes(MaxData),
     m \in {<<Some(QInt(90)), Some([NoYAxis EXCEPT !.dynamicHeight = Some(FALSE)]),
              Some(-120), Some([NoXAxis EXCEPT !.dynamicWidth = Some(FALSE)])>>,
            <<Some(QInt(-90)), Some([NoYAxis EXCEPT !.dynamicHeight = Some(FALSE)]),
              Some(120), Some([NoXAxis EXCEPT !.dynamicWidth = Some(FALSE)])>>,
            <<None, Some([NoYAxis EXCEPT !.dynamicHeight = Some(TRUE),
                                         !.elementHeight = Some(QInt(-20))]),
              Some(120), Some([NoXAxis EXCEPT !.dynamicWidth = Some(FALSE)])>>,
            <<Some(QInt(90)), Some([NoYAxis EXCEPT !.dynamicHeight = Some(FALSE)]),
              None, Some([NoXAxis EXCEPT !.dynamicWidth = Some(TRUE),
                                         !.tickDistance = Some(-30)])>>,
            <<Some(QInt(90)), Some([NoYAxis EXCEPT !.dynamicHeight = Some(FALSE)]),
              Some(120), Some([NoXAxis EXCEPT !.dynamicWidth = Some(FALSE)])>>}}

NextMalformed ==
  \/ \E p \in MalformedParams : init("A", p)
  \/ draw("A")

SpecMalformed == Init /\ [][NextMalformed]_vars

\* the offsets an axis element can be scrolled to
Offsets == 0 .. MaxScroll

\* charts to scroll: the default one and one with rows
ScrollParams == {[NoParams EXCEPT !.activities = Some(a)] : a \in Prefixes(1)}

NextScroll ==
  \/ \E p \in ScrollParams : init("A", p)
  \/ draw("A")
  \/ \E i \in 1 .. MaxCalls : \E v \in Offsets : scrollX(i, v)
  \/ \E i \in 1 .. MaxCalls : \E v \in Offsets : scrollY(i, v)

SpecScroll == Init /\ [][NextScroll]_vars

\* charts that differ in their rows and in whether a row has a description
TooltipParams ==
  {[NoParams EXCEPT !.activities = Some(l)] : l \in Lists(Activities, MaxActs)}

\* the ticks there can be: one per row and draw
TickIndexes == 1 .. (MaxActs * MaxCalls)

NextTooltip ==
  \/ \E p \in TooltipParams : init("A", p)
  \/ draw("A")
  \/ \E i \in TickIndexes : mouseover(i)
  \/ \E i \in TickIndexes : mousemove(i)
  \/ \E i \in TickIndexes : mouseout(i)

SpecTooltip == Init /\ [][NextTooltip]_vars

\* ------------------------------------------------------------ the claims
\* the latest call is init on a chart
AfterInit == last.op = "init" /\ last.chart \in Charts

MinOf(S) == CHOOSE m \in S : \A x \in S : m <= x

MaxOf(S) == CHOOSE m \in S : \A x \in S : m >= x

\* C1: after init with a non-empty params.data, startTime is the least start
\* and endTime the greatest end of the events passed.
C1_InferredDomain ==
  (AfterInit /\ last.arg.data # None /\ last.arg.data[1] # <<>>) =>
     /\ ParamsOf(last.chart).startTime =
          MinOf({e.start : e \in Range(last.arg.data[1])})
     /\ ParamsOf(last.chart).endTime =
          MaxOf({e.end : e \in Range(last.arg.data[1])})

\* what the claim's deep merge yields for a leaf: the value given, else the
\* default of the script
Leaf(given, default) == IF given = None THEN default ELSE given[1]

SubKey(obj, noObj) == IF obj = None THEN noObj ELSE obj[1]

\* C2: after init(params) every leaf key of the defaults is in this.params
\* with the value given in params at that path, or else with its default.
C2_DeepMerge ==
  AfterInit =>
    LET r  == ParamsOf(last.chart)
        o  == last.arg
        D  == DefaultParameters
        oy == SubKey(o.yAxis, NoYAxis)
        ox == SubKey(o.xAxis, NoXAxis)
        ol == SubKey(ox.label, NoLabel)
    IN  /\ r.node = Leaf(o.node, D.node)
        /\ r.width = Leaf(o.width, D.width)
        /\ r.height = Leaf(o.height, D.height)
        /\ r.yAxis.width = Leaf(oy.width, D.yAxis.width)
        /\ r.yAxis.dynamicHeight = Leaf(oy.dynamicHeight, D.yAxis.dynamicHeight)
        /\ r.yAxis.elementHeight = Leaf(oy.elementHeight, D.yAxis.elementHeight)
        /\ r.xAxis.height = Leaf(ox.height, D.xAxis.height)
        /\ r.xAxis.dynamicWidth = Leaf(ox.dynamicWidth, D.xAxis.dynamicWidth)
        /\ r.xAxis.tickDistance = Leaf(ox.tickDistance, D.xAxis.tickDistance)
        /\ r.xAxis.interval = Leaf(ox.interval, D.xAxis.interval)
        /\ r.xAxis.label.format = Leaf(ol.format, D.xAxis.label.format)
        /\ r.xAxis.label.rotation = Leaf(ol.rotation, D.xAxis.label.rotation)
        /\ r.xAxis.label.dx = Leaf(ol.dx, D.xAxis.label.dx)
        /\ r.xAxis.label.dy = Leaf(ol.dy, D.xAxis.label.dy)

\* C3: no sequence of init and draw calls changes a field of
\* defaultParameters, and this.params is a tree of its own.
C3_DefaultsUntouched ==
  /\ defaultParameters = DefaultParameters
  /\ \A c \in Charts : params[c] # "defaultParameters"

\* C4: a call on another chart leaves the params of an initialised chart
\* as they were.
C4_OwnConfiguration ==
  [][\A c \in Charts :
       (params[c] # "undefined" /\ last'.chart \in Charts \ {c}
          /\ calls' = calls + 1)
       => ParamsOf(c)' = ParamsOf(c)]_vars

SameElements(a, b) ==
  /\ Len(a) = Len(b)
  /\ \E f \in Perms(Len(a)) : \A i \in 1 .. Len(a) : a[i] = b[f[i]]

\* C5: after init, this.params.data holds exactly the events passed to it
\* and this.params.activities exactly the activities passed to it.
C5_ArraysReplaced ==
  AfterInit =>
    /\ last.arg.data # None =>
         SameElements(ParamsOf(last.chart).data, last.arg.data[1])
    /\ last.arg.activities # None =>
         ParamsOf(last.chart).activities = last.arg.activities[1]

\* C6: an explicit startTime or endTime in params is kept by init, also
\* when params.data is not empty.
C6_ExplicitDomainKept ==
  AfterInit =>
    /\ last.arg.startTime # None =>
         ParamsOf(last.chart).startTime = last.arg.startTime[1]
    /\ last.arg.endTime # None =>
         ParamsOf(last.chart).endTime = last.arg.endTime[1]

\* C7: after init (of d3.ganttChart or of d3.ganttDiagram) the object the
\* caller passed is as it was before the call, its data in the same order.
C7_CallerUntouched ==
  last.op = "init" => caller = last.arg

\* a step is a call of draw on chart c
IsDraw(c) == last'.op = "draw" /\ last'.chart = c /\ calls' = calls + 1

\* C8: draw lays the chart out with the height elementHeight * (number of
\* activities) when yAxis.dynamicHeight is true (0 without activities), and
\* with the configured height, unchanged, when it is false.
C8_DrawHeight ==
  [][\A c \in Charts : IsDraw(c) =>
       /\ svg'[c] # None
       /\ svg'[c][1].height = defaultParameters'.height
       /\ svg'[c][1].height =
            IF ParamsOf(c).yAxis.dynamicHeight
            THEN QMulInt(ParamsOf(c).yAxis.elementHeight, Len(ParamsOf(c).activities))
            ELSE ParamsOf(c).height]_vars

\* a chart drawn with a dynamic height that differs from the configured one
C8_Witness ==
  /\ last.op = "draw"
  /\ ParamsOf("A").yAxis.dynamicHeight
  /\ Len(ParamsOf("A").activities) = 2
  /\ svg["A"] # None
  /\ svg["A"][1].height = QInt(40)

\* C9 as stated: with xAxis.dynamicWidth the width is tickDistance times the
\* number of ticks the axis shows over the closed range [startTime, endTime].
C9_ClosedRange ==
  [][\A c \in Charts : IsDraw(c) =>
       svg'[c][1].width =
         IF ParamsOf(c).xAxis.dynamicWidth
         THEN ParamsOf(c).xAxis.tickDistance * Cardinality(svg'[c][1].ticks)
         ELSE ParamsOf(c).width]_vars

\* C9 amended: with xAxis.dynamicWidth the width is tickDistance times the
\* number of interval boundaries in the half-open range [startTime, endTime):
\* a tick that falls exactly on endTime is shown by the axis but not counted.
\* Without dynamicWidth the configured width is used unchanged.
C9_HalfOpenRange ==
  [][\A c \in Charts : IsDraw(c) =>
       /\ svg'[c][1].width = defaultParameters'.width
       /\ svg'[c][1].width =
            IF ParamsOf(c).xAxis.dynamicWidth
            THEN ParamsOf(c).xAxis.tickDistance
                   * Cardinality({k \in svg'[c][1].ticks : k.t < ParamsOf(c).endTime})
            ELSE ParamsOf(c).width]_vars

\* a chart drawn with a dynamic width whose axis shows a tick on endTime
C9_Witness ==
  /\ last.op = "draw"
  /\ ParamsOf("A").xAxis.dynamicWidth
  /\ svg["A"] # None
  /\ \E k \in svg["A"][1].ticks : k.t = ParamsOf("A").endTime
  /\ Cardinality(svg["A"][1].ticks) = 3
  /\ svg["A"][1].width = 2 * ParamsOf("A").xAxis.tickDistance

\* C10: with xAxis.dynamicWidth, two consecutive ticks of the x axis are
\* xAxis.tickDistance pixels apart, whatever the time domain and interval.
C10_TickDistance ==
  [][\A c \in Charts : IsDraw(c) /\ ParamsOf(c).xAxis.dynamicWidth =>
       \A k1, k2 \in svg'[c][1].ticks :
         k2.t = k1.t + ParamsOf(c).xAxis.interval =>
           QSub(k2.x, k1.x) = QInt(ParamsOf(c).xAxis.tickDistance)]_vars

\* timestamps to apply the time scale to: those of the model and one
\* before and one after them
ProbeTimes == (-1) .. (MaxTime + 1)

\* C11: with startTime < endTime the time scale maps every earlier timestamp
\* to pixel 0, every later one to pixel width, and the timestamps of the
\* domain linearly and monotonically into [0, width].
C11_Clamped ==
  \A c \in Charts :
    LET p == ParamsOf(c)
        s == p.startTime
        e == p.endTime
    IN  (params[c] # "undefined" /\ s < e /\ p.width >= 0) =>
          /\ \A t \in ProbeTimes :
               LET x == xAxisScale(p, t)
               IN  /\ t < s => x = QInt(0)
                   /\ t > e => x = QInt(p.width)
                   /\ (s <= t /\ t <= e) => x.n * (e - s) = p.width * (t - s) * x.d
                   /\ QLeq(QInt(0), x) /\ QLeq(x, QInt(p.width))
          /\ \A t1, t2 \in ProbeTimes :
               t1 <= t2 => QLeq(xAxisScale(p, t1), xAxisScale(p, t2))

\* a drawn chart whose domain has timestamps before, inside and after it
C11_Witness ==
  /\ last.op = "draw"
  /\ ParamsOf("A").startTime = 1
  /\ ParamsOf("A").endTime = 3
  /\ ParamsOf("A").width = 120
  /\ xAxisScale(ParamsOf("A"), 0) = QInt(0)
  /\ xAxisScale(ParamsOf("A"), 2) = QInt(60)
  /\ xAxisScale(ParamsOf("A"), 4) = QInt(120)

\* C12: with startTime = endTime the time scale gives one and the same pixel
\* offset for every timestamp, before, at and after startTime.
C12_DegenerateConstant ==
  \A c \in Charts :
    (params[c] # "undefined" /\ ParamsOf(c).startTime = ParamsOf(c).endTime) =>
      \A t1, t2 \in ProbeTimes :
        xAxisScale(ParamsOf(c), t1) = xAxisScale(ParamsOf(c), t2)

UniqueNames(acts) == DomainSize(acts) = Len(acts)

\* C13: for n >= 1 uniquely named activities (and a height >= 0) the row
\* scale puts the i-th activity, counted from 0, in the band that starts at
\* i * height / n; every band is height / n high, each band ends where the
\* next one starts, the first starts at 0 and the last ends at height.
C13_RowBands ==
  \A c \in Charts :
    LET p  == ParamsOf(c)
        n  == Len(p.activities)
        h  == p.height
        at(i) == yAxisScale(p, p.activities[i].name)
    IN  (params[c] # "undefined" /\ n >= 1 /\ UniqueNames(p.activities) /\ h.n >= 0) =>
          /\ bandwidth(p) = Q(h.n, h.d * n)
          /\ \A i \in 1 .. n :
               /\ at(i) = Some(Q(h.n * (i - 1), h.d * n))
               /\ i < n => QAdd(at(i)[1], bandwidth(p)) = at(i + 1)[1]
          /\ at(1) = Some(QInt(0))
          /\ QAdd(at(n)[1], bandwidth(p)) = h

\* a drawn chart of two rows and height 90: the second row starts at 45
C13_Witness ==
  /\ last.op = "draw"
  /\ Len(ParamsOf("A").activities) = 2
  /\ ParamsOf("A").height = QInt(90)
  /\ yAxisScale(ParamsOf("A"), "John") = Some(QInt(0))
  /\ yAxisScale(ParamsOf("A"), "Bob") = Some(QInt(45))
  /\ bandwidth(ParamsOf("A")) = QInt(45)

\* events that may start before the time domain and end after it
ProbeEvents ==
  {[start |-> s, end |-> e] : s \in ProbeTimes, e \in ProbeTimes}

\* C14: on a chart of width >= 0 (whose time domain has startTime <= endTime)
\* every event with start <= end gets a bar width scale(end) - scale(start)
\* that is >= 0 and at most the chart width, also when the event starts
\* before startTime or ends after endTime.
C14_BarWidth ==
  \A c \in Charts :
    LET p == ParamsOf(c)
    IN  (params[c] # "undefined" /\ p.startTime <= p.endTime /\ p.width >= 0) =>
          \A ev \in ProbeEvents :
            ev.start <= ev.end =>
              /\ QLeq(QInt(0), elementWidth(p, ev))
              /\ QLeq(elementWidth(p, ev), QInt(p.width))

\* a drawn chart over [1, 3] of width 120: an event that starts before the
\* domain is cut at its start, one that covers the domain is as wide as the chart
C14_Witness ==
  /\ last.op = "draw"
  /\ ParamsOf("A").startTime = 1 /\ ParamsOf("A").endTime = 3
  /\ ParamsOf("A").width = 120
  /\ elementWidth(ParamsOf("A"), [start |-> 0, end |-> 2]) = QInt(60)
  /\ elementWidth(ParamsOf("A"), [start |-> -1, end |-> 4]) = QInt(120)
  /\ elementWidth(ParamsOf("A"), [start |-> 2, end |-> 2]) = QInt(0)

\* the names that have a row
RowNames(p) == {p.activities[i].name : i \in 1 .. Len(p.activities)}

\* C15: drawing an event whose activity is not the name of any configured
\* activity signals an UnknownActivityError, and no rectangle is produced
\* for that event.
C15_UnknownActivityRejected ==
  \A c \in Charts :
    (last.op = "draw" /\ last.chart = c) =>
      \A i \in 1 .. Len(ParamsOf(c).data) :
        ParamsOf(c).data[i].activity \notin RowNames(ParamsOf(c)) =>
          /\ raised = Some("UnknownActivityError")
          /\ i \notin DOMAIN svg[c][1].bars

\* an object passed to init that holds a negative dimension
Malformed(p) ==
  \/ p.width # None /\ p.width[1] < 0
  \/ p.height # None /\ p.height[1].n < 0
  \/ p.yAxis # None /\ p.yAxis[1].elementHeight # None
       /\ p.yAxis[1].elementHeight[1].n < 0
  \/ p.xAxis # None /\ p.xAxis[1].tickDistance # None
       /\ p.xAxis[1].tickDistance[1] < 0

\* C16: init rejects a configuration with a negative width, height,
\* yAxis.elementHeight or xAxis.tickDistance with a ConfigurationError, so
\* that no drawn chart has a negative width or height and no bar a negative
\* width or height.
C16_MalformedRejected ==
  /\ (last.op = "init" /\ Malformed(last.arg)) =>
       raised = Some("ConfigurationError")
  /\ \A c \in Charts :
       svg[c] # None =>
         /\ svg[c][1].width >= 0
         /\ svg[c][1].height.n >= 0
         /\ svg[c][1].rectHeight.n >= 0
         /\ \A i \in DOMAIN svg[c][1].bars : svg[c][1].bars[i].width.n >= 0

\* C17: on a chart with uniquely named activities, a draw() that follows a
\* draw() (no init in between) leaves params.width, params.height and
\* yAxis.elementHeight as the first draw() computed them, in the dynamic and
\* in the static sizing modes, and with no activities at all.
C17_DrawIdempotent ==
  [][\A c \in Charts :
       (last.op = "draw" /\ IsDraw(c) /\ UniqueNames(ParamsOf(c).activities)) =>
         /\ ParamsOf(c).width' = ParamsOf(c).width
         /\ ParamsOf(c).height' = ParamsOf(c).height
         /\ ParamsOf(c).yAxis.elementHeight' = ParamsOf(c).yAxis.elementHeight
         /\ svg'[c][1].width = svg[c][1].width
         /\ svg'[c][1].height = svg[c][1].height
         /\ svg'[c][1].rectHeight = svg[c][1].rectHeight]_vars

\* init, draw, draw on a chart of two rows with dynamic height: two sets of
\* elements in the node, and the height is still 2 * 20
C17_Witness ==
  /\ last.op = "draw"
  /\ calls = 3
  /\ Len(dom.container) = 2
  /\ Len(ParamsOf("A").activities) = 2
  /\ ParamsOf("A").yAxis.dynamicHeight
  /\ ParamsOf("A").height = QInt(40)
  /\ ParamsOf("A").yAxis.elementHeight = QInt(20)

\* the same with no activities: the height is 0 after both draws
C17_WitnessEmpty ==
  /\ last.op = "draw"
  /\ calls = 3
  /\ Len(dom.container) = 2
  /\ Len(ParamsOf("A").activities) = 0
  /\ ParamsOf("A").yAxis.dynamicHeight
  /\ ParamsOf("A").height = QInt(0)

\* C18: d3.ganttDiagram.util.extend merges nested objects recursively: when
\* init is given an xAxis object, every key of the default xAxis that the
\* given object does not hold keeps its default value in this.params (the
\* defaults {height: 30, labelFormat: '%H:%M'} with {height: 40} yield
\* {height: 40, labelFormat: '%H:%M'}).
C18_DiagramDeepMerge ==
  (last.op = "init" /\ last.chart = "d3.ganttDiagram" /\ last.arg.xAxis # None) =>
    LET given == last.arg.xAxis[1]
        merged == dgParams[1].xAxis
    IN  /\ merged.height =
             IF given.height # None THEN given.height ELSE DiagramDefaults.xAxis.height
        /\ merged.labelFormat =
             IF given.labelFormat # None THEN given.labelFormat
             ELSE DiagramDefaults.xAxis.labelFormat

\* the row of a name, counted from 0
RowOf(p, nm) == (CHOOSE i \in 1 .. Len(p.activities) : p.activities[i].name = nm) - 1

\* C19: right after draw(), every event whose activity has a row has its bar
\* at x = scale(start), y = the start of the band of its row; the rectangles
\* are as high as a band, height / n, whether the height is dynamic or
\* static; the bar is scale(end) - scale(start) wide and its label is
\* translated by half the width of the bar and half the height of a band.
C19_BarGeometry ==
  \A c \in Charts :
    (last.op = "draw" /\ last.chart = c) =>
      LET p == ParamsOf(c)
          n == Len(p.activities)
          h == p.height
          S == p.startTime
          E == p.endTime
          drawn == svg[c][1]
      IN  \A i \in 1 .. Len(p.data) :
            LET ev  == p.data[i]
                bar == drawn.bars[i]
            IN  (ev.activity \in RowNames(p) /\ UniqueNames(p.activities)) =>
                  /\ S <= ev.start /\ ev.start <= ev.end /\ ev.end <= E
                  /\ bar.x.n * (E - S) = p.width * (ev.start - S) * bar.x.d
                  /\ bar.width.n * (E - S) = p.width * (ev.end - ev.start) * bar.width.d
                  /\ bar.y = Some(Q(h.n * RowOf(p, ev.activity), h.d * n))
                  /\ drawn.rectHeight = Q(h.n, h.d * n)
                  /\ bar.labelX = Q(bar.width.n, bar.width.d * 2)
                  /\ bar.labelY = Q(h.n, h.d * n * 2)

\* a drawn chart of 120 by 90 over [0, 3] with the rows John and Bob: Bob's
\* event [1, 3] is at (40, 45), 80 wide and 45 high, its label at (40, 45/2)
C19_Witness ==
  /\ last.op = "draw"
  /\ svg["A"] # None
  /\ ~ParamsOf("A").yAxis.dynamicHeight
  /\ Len(ParamsOf("A").activities) = 2
  /\ Len(svg["A"][1].bars) = 2
  /\ svg["A"][1].rectHeight = QInt(45)
  /\ svg["A"][1].bars[2] =
       [x |-> QInt(40), y |-> Some(QInt(45)), width |-> QInt(80),
        labelX |-> QInt(40), labelY |-> Q(45, 2), fill |-> None]

\* the same rows and events with the dynamic height 2 * 20 and the dynamic
\* width 3 * 30
C19_WitnessDynamic ==
  /\ last.op = "draw"
  /\ svg["A"] # None
  /\ ParamsOf("A").yAxis.dynamicHeight
  /\ Len(ParamsOf("A").activities) = 2
  /\ Len(svg["A"][1].bars) = 2
  /\ svg["A"][1].rectHeight = QInt(20)
  /\ svg["A"][1].bars[2] =
       [x |-> QInt(30), y |-> Some(QInt(20)), width |-> QInt(60),
        labelX |-> QInt(30), labelY |-> QInt(10), fill |-> None]

\* C20: every scroll event on an x-axis element sets the scrollLeft of the
\* container to the scrollLeft of that element, every scroll event on a
\* y-axis element sets the scrollTop of the container to the scrollTop of
\* that element, and neither handler raises.
C20_ScrollSync ==
  [][/\ last'.op = "scrollX" =>
          /\ raised' = None
          /\ \A i \in DOMAIN dom.xAxis :
               dom'.xAxis[i] # dom.xAxis[i] =>
                 dom'.container[i].scrollLeft = dom'.xAxis[i]
     /\ last'.op = "scrollY" =>
          /\ raised' = None
          /\ \A i \in DOMAIN dom.yAxis :
               dom'.yAxis[i] # dom.yAxis[i] =>
                 dom'.container[i].scrollTop = dom'.yAxis[i]]_vars

\* the description the activity named nm has now, "" when it has none
DescriptionOf(nm) ==
  LET acts == defaultParameters.activities
      d    == acts[FirstIndex(acts, nm)].description
  IN  IF d = None THEN "" ELSE d[1]

\* C21: the tooltip is hidden after draw(), visible after a mouseover of a
\* y-axis label and hidden after the mouseout, and no tooltip is visible
\* while the pointer is over no label; every mousemove over a label of the
\* document ends without raising and leaves the description of the activity
\* of that name ("" when it has none) as the text of the tooltip.
C21_Tooltips ==
  [][/\ last'.op = "draw" => ~dom'.tooltip[tooltipOf(dom')].visible
     /\ last'.op = "mouseover" => dom'.tooltip[tooltipOf(dom')].visible
     /\ last'.op = "mouseout" => ~dom'.tooltip[tooltipOf(dom')].visible
     /\ \A k \in DOMAIN dom'.tooltip : dom'.tooltip[k].visible => dom'.hover # 0
     /\ last'.op = "mousemove" =>
          /\ raised' = None
          /\ dom'.tooltip[tooltipOf(dom')].text = DescriptionOf(dom.ticks[dom.hover])']_vars

====
